---- MODULE Spec2Model ----
(***************************************************************************)
(* AsyncRedirectPolicy.send                                                *)
(* (sdk/core/azure-core/azure/core/pipeline/policies/_redirect_async.py).  *)
(* One send call of one configured policy instance is modelled, with its  *)
(* suspension point (the awaited forward to the next stage) explicit.      *)
(* RedirectPolicyBase, domain_changed and get_domain are imported by the   *)
(* file but live outside it; they are modelled from the design document.   *)
(***************************************************************************)
EXTENDS Integers, Sequences, FiniteSets, TLC

\* Largest redirect limit a policy or a call is explicitly configured with.
MaxRedirects == 3

\* A call whose limit is larger (the default) is observed for this many
\* forwards.
MaxForwards == MaxRedirects + 1

----------------------------------------------------------------------------
\* URLs, domains, responses

\* http://a.example/x, http://a.example/y, http://b.example/z
Urls ==
  { [scheme |-> "http", host |-> "a.example", path |-> "x"],
    [scheme |-> "http", host |-> "a.example", path |-> "y"],
    [scheme |-> "http", host |-> "b.example", path |-> "z"] }

\* headers.get("location") of a response without the header
NoLocation == [scheme |-> "", host |-> "", path |-> ""]

\* a location header whose value names no host ("http:///x")
BadLocation == [scheme |-> "http", host |-> "", path |-> "x"]

Locations == Urls \cup {NoLocation, BadLocation}

\* original_domain = None
NoDomain == [scheme |-> "", host |-> ""]

Statuses == {200, 302, 303}

\* the conventional 3xx redirect set
REDIRECT_STATUSES == {300, 301, 302, 303, 307, 308}

\* a request without content
NoBody == ""

\* an HttpRequest: its method, its URL and its content
HttpRequestWith(method, url, body) ==
  [url |-> url, method |-> method, body |-> body]

HttpRequest(url) == HttpRequestWith("GET", url, NoBody)

\* the PipelineResponse the next stage hands back: it carries the http
\* request it answers; hop is the position of the exchange in the call
PipelineResponse(status, location, http_request, hop) ==
  [status |-> status, location |-> location, http_request |-> http_request,
   hop |-> hop]

NoResponse == PipelineResponse(0, NoLocation, HttpRequest(NoLocation), 0)

\* scheme + host of a URL
get_domain(url) == [scheme |-> url.scheme, host |-> url.host]

domain_changed(original_domain, url) == get_domain(url) # original_domain

----------------------------------------------------------------------------
\* The options bag of the call's context: a mapping from option names to
\* values; an option that was not passed is not in the domain.

OptionGet(options, name, default) ==
  IF name \in DOMAIN options THEN options[name] ELSE default

OptionSet(options, name, value) ==
  [k \in DOMAIN options \cup {name} |-> IF k = name THEN value ELSE options[k]]

OptionPop(options, name) == [k \in DOMAIN options \ {name} |-> options[k]]

CallOptions ==
  { [k \in D |-> v[k]] :
      D \in SUBSET {"permit_redirects", "redirect_max"},
      v \in [permit_redirects : BOOLEAN, redirect_max : 0..MaxRedirects] }

\* the keyword arguments a policy is constructed with
PolicyKwargs == CallOptions

\* ":keyword bool permit_redirects: ... Defaults to True."
DefaultPermitRedirects == TRUE

\* ":keyword int redirect_max: ... Defaults to 30."
DefaultRedirectMax == 30

\* errors the next stage fails with
TransportErrors == {"ServiceRequestError", "ServiceResponseError"}

NoFailure == [next_stage |-> "", send |-> ""]

----------------------------------------------------------------------------
VARIABLES
  policy_kwargs,       \* keyword arguments of the policy's construction
  failure,             \* the error the next stage raised, and the one send did
  self_allow,          \* policy configuration: permit_redirects
  self_max_redirects,  \* policy configuration: redirect_max
  cleanup_downstream,  \* the chain after this policy consumes the flag
  pc,                  \* position of the call in send
  request,             \* request.http_request
  options,             \* request.context.options
  redirect_settings,   \* local of send
  original_domain,     \* local of send
  redirects_remaining, \* local of send
  forwarded,           \* what the next stage was invoked with, in order
  received,            \* what the next stage answered, in order
  flag_writes,         \* hops at which send wrote insecure_domain_change
  original_request,    \* request.http_request as the caller passed it
  original_options,    \* request.context.options as the caller passed them
  returned,            \* the response send returned
  raised               \* the history TooManyRedirectsError carries

\* Several send calls in flight on the one policy instance.
VARIABLES
  calls                \* call -> the request, context and frame of its send

\* One call through a pipeline: policies 1..policies, then the transport.
VARIABLES
  policies,            \* number of policies of the pipeline
  redirect_at,         \* position of the redirect policy among them
  stack,               \* the stages entered and not yet left, outermost first
  direction,           \* "down": the request travels, "up": the response does
  next_sends,          \* times the redirect policy has called its next stage
  trace                \* the stages entered and left, in order

pipeline_vars ==
  << policies, redirect_at, stack, direction, next_sends, trace >>

\* A poller of a long-running operation and the one caller that owns it.
VARIABLES
  poller_status,       \* "InProgress", "Succeeded" or "Failed"
  last_response,       \* the response the poller last interpreted
  final_resource,      \* the resource result() hands out
  poll_interval,       \* the sleep between two status checks
  caller,              \* "idle", "checking" (in the status check), "sleeping"
  operation,           \* the operation the caller is inside of
  status_checks,       \* invocations of the status-check callable
  sleeps,              \* sleeps begun
  done_returns,        \* what the calls of done() returned, in order
  last_call,           \* the operation that ended last, and how
  begun_by,            \* the client method that built the polling method
  begun_with,          \* the keyword arguments: the caller's, and what the
                       \* initial service call and the command received
  results,             \* the resources handed out, and whether finished then
  attempts,            \* status checks and sleeps of the operation under way
  cancellations,       \* operations the caller abandoned
  check_errors         \* status checks that ended in an error

poller_vars ==
  << poller_status, last_response, final_resource, poll_interval, caller, operation,
     status_checks, sleeps, done_returns, last_call, begun_by, begun_with,
     results,
     attempts, cancellations, check_errors >>

\* The calls made on a key client.
VARIABLES
  client_calls         \* each call: its arguments, the requests it handed to
                       \* the generated client, and how it ended

\* A call of AttackStrategy.Compose.
VARIABLES
  composed             \* the call: its argument and how it ended; none yet
                       \* is the empty sequence

\* no call of Compose is modelled
NoCompose == composed = << >>

\* what a send call on its own leaves alone
outside_send == << calls, pipeline_vars, poller_vars, client_calls, composed >>

\* no client call is modelled
NoClientCall == client_calls = << >>

\* no poller is modelled
NoPoller ==
  /\ poller_status = "InProgress"
  /\ last_response = "initial"
  /\ final_resource = [type |-> "none"]
  /\ poll_interval = 0
  /\ begun_by = "none"
  /\ begun_with = [kwargs |-> << >>,
                   service_call |-> [operation |-> "none", kwargs |-> << >>],
                   command |-> [function |-> "none", kwargs |-> << >>]]
  /\ results = << >>
  /\ attempts = << >>
  /\ cancellations = 0
  /\ check_errors = 0
  /\ caller = "idle"
  /\ operation = "none"
  /\ status_checks = 0
  /\ sleeps = 0
  /\ done_returns = << >>
  /\ last_call = [operation |-> "none", outcome |-> "none"]

\* no pipeline call is modelled
NoPipeline ==
  /\ policies = 0
  /\ redirect_at = 0
  /\ stack = << >>
  /\ direction = "down"
  /\ next_sends = 0
  /\ trace = << >>

send_vars ==
  << policy_kwargs, failure, self_allow, self_max_redirects, cleanup_downstream,
     pc, request, options, redirect_settings, original_domain,
     redirects_remaining, forwarded, received, flag_writes, original_request,
     original_options, returned, raised >>

vars == << send_vars, outside_send >>

NoSettings == [allow |-> FALSE, max_redirects |-> 0, history |-> << >>]

----------------------------------------------------------------------------
\* RedirectPolicyBase

configure_redirects(call_options) ==
  [allow |-> OptionGet(call_options, "permit_redirects", self_allow),
   max_redirects |-> OptionGet(call_options, "redirect_max", self_max_redirects),
   history |-> << >>]

IsValidLocation(location) == location.host # ""

\* the target URL, or NoLocation when the response is no redirect instruction
get_redirect_location(response) ==
  IF response.status \in REDIRECT_STATUSES /\ IsValidLocation(response.location)
  THEN response.location
  ELSE NoLocation

\* one rule for every status code: the method is kept
KeepsMethod(method, status) == method

\* the method of the re-issued request: a 303 answer turns it into a GET,
\* any other redirect keeps it
RedirectedMethod(method, status) == IF status = 303 THEN "GET" ELSE method

\* the content of the re-issued request: a 303 answer drops it, any other
\* redirect keeps it
RedirectedBody(body, status) == IF status = 303 THEN NoBody ELSE body

\* appends the response to the history, points the response's request at the
\* target with the method and content its status code asks for, and reports
\* whether redirects remain
increment(settings, response, redirect_location) ==
  LET history == Append(settings.history, response)
      http_request == response.http_request
  IN [settings |-> [settings EXCEPT !.history = history],
      http_request |->
        HttpRequestWith(RedirectedMethod(http_request.method, response.status),
                        redirect_location,
                        RedirectedBody(http_request.body, response.status)),
      remaining |-> Len(history) < settings.max_redirects]

----------------------------------------------------------------------------
\* AsyncRedirectPolicy.send, line by line

\* line 73 leaving the options of the call out
SettingsOfPolicyOnly(call_options) ==
  configure_redirects([k \in {} |-> TRUE])

\* line 73
ConfiguredSettings(call_options) == configure_redirects(call_options)

\* the condition of line 74 inverted
CapturedDomainInverted(http_request, settings) ==
  IF ~settings.allow THEN get_domain(http_request.url) ELSE NoDomain

\* line 74
CapturedDomain(http_request, settings) ==
  IF settings.allow THEN get_domain(http_request.url) ELSE NoDomain

\* "while True:" in place of line 75
LoopForever(remaining) == TRUE

\* "while not redirects_remaining:" in place of line 75
LoopInverted(remaining) == ~remaining

\* line 75
LoopContinues(remaining) == remaining

\* line 78 without "and redirect_settings['allow']"
TakesRedirectIgnoringAllow(redirect_location, settings) ==
  redirect_location # NoLocation

\* line 78 without "redirect_location and"
TakesRedirectIgnoringLocation(redirect_location, settings) == settings.allow

\* line 78 with "and not redirect_settings['allow']"
TakesRedirectWhenDisallowed(redirect_location, settings) ==
  redirect_location # NoLocation /\ ~settings.allow

\* line 78
TakesRedirect(redirect_location, settings) ==
  redirect_location # NoLocation /\ settings.allow

\* line 80 left out: the request of the call is kept
KeepsRequest(redirected_request) == request

\* line 80 re-sending the request the call started with
ResendsOriginalRequest(redirected_request) == original_request

\* line 80
ReplacedRequest(redirected_request) == redirected_request

\* line 81 comparing with the domain of the hop before
FlagsChangeFromPreviousHop(domain, http_request) ==
  domain_changed(get_domain(request.url), http_request.url)

\* line 81
FlagsDomainChange(domain, http_request) ==
  domain_changed(domain, http_request.url)

\* line 86 writing under a misspelled key
FlagUnderMisspelledKey(call_options) ==
  OptionSet(call_options, "insecure_domain_changed", TRUE)

\* line 86
WithDomainChangeFlag(call_options) ==
  OptionSet(call_options, "insecure_domain_change", TRUE)

\* lines 81-86 storing the result of the comparison, whichever it is
OptionsWithComparisonResult(call_options, flagged) ==
  OptionSet(call_options, "insecure_domain_change", flagged)

\* lines 81-86: the flag is written only where the domain changed
OptionsAfterHop(call_options, flagged) ==
  IF flagged THEN WithDomainChangeFlag(call_options) ELSE call_options

\* line 76 wrapped in a handler that raises the policy's own error
ConvertedError(error) == "TooManyRedirectsError"

\* line 76: no try/except around the await
PropagatedError(error) == error

\* line 88 returning the response of the first hop
ReturnsFirstResponse(response) ==
  IF received = << >> THEN response ELSE received[1]

\* line 88
ReturnedResponse(response) == response

\* line 90 raising with the history short of its last entry
RaisedHistoryWithoutLast(settings) ==
  SubSeq(settings.history, 1, Len(settings.history) - 1)

\* line 90 raising with the history newest first
RaisedHistoryNewestFirst(settings) ==
  [i \in 1..Len(settings.history) |->
     settings.history[Len(settings.history) + 1 - i]]

\* line 90
RaisedHistory(settings) == settings.history

\* what the rest of the chain does to the options bag when it is invoked
DownstreamOptions(call_options) ==
  IF cleanup_downstream
  THEN OptionPop(call_options, "insecure_domain_change")
  ELSE call_options

Init ==
  /\ policy_kwargs \in PolicyKwargs
  /\ failure = NoFailure
  /\ self_allow =
       OptionGet(policy_kwargs, "permit_redirects", DefaultPermitRedirects)
  /\ self_max_redirects =
       OptionGet(policy_kwargs, "redirect_max", DefaultRedirectMax)
  /\ cleanup_downstream \in BOOLEAN
  /\ pc = "init"
  /\ request \in {HttpRequest(u) : u \in Urls}
  /\ options \in CallOptions
  /\ redirect_settings = NoSettings
  /\ original_domain = NoDomain
  /\ redirects_remaining = TRUE
  /\ forwarded = << >>
  /\ received = << >>
  /\ flag_writes = << >>
  /\ original_request = request
  /\ original_options = options
  /\ returned = NoResponse
  /\ raised = << >>
  /\ calls = << >>
  /\ NoPipeline
  /\ NoPoller
  /\ NoClientCall
  /\ NoCompose

\* lines 72-74
Start ==
  /\ pc = "init"
  /\ LET settings == ConfiguredSettings(options)
     IN /\ redirect_settings' = settings
        /\ original_domain' = CapturedDomain(request, settings)
  /\ redirects_remaining' = TRUE
  /\ pc' = "forward"
  /\ UNCHANGED << policy_kwargs, failure, self_allow, self_max_redirects,
                  cleanup_downstream, request, options, forwarded, received,
                  flag_writes, original_request, original_options, returned,
                  raised, outside_send >>

\* line 76, the call: self.next.send(request) is entered and send suspends
Forward ==
  /\ pc = "forward"
  /\ Len(forwarded) < MaxForwards
  /\ forwarded' = Append(forwarded,
       [http_request |-> request,
        insecure_domain_change |->
          OptionGet(options, "insecure_domain_change", FALSE)])
  /\ options' = DownstreamOptions(options)
  /\ pc' = "awaiting"
  /\ UNCHANGED << policy_kwargs, failure, self_allow, self_max_redirects,
                  cleanup_downstream, request, redirect_settings,
                  original_domain, redirects_remaining, received, flag_writes,
                  original_request, original_options, returned, raised,
                  outside_send >>

\* line 76, the await resumes with a response; lines 77-90
Receive(status, location) ==
  /\ pc = "awaiting"
  /\ LET response ==
           PipelineResponse(status, location, request, Len(received) + 1)
         redirect_location == get_redirect_location(response)
     IN /\ received' = Append(received, response)
        /\ IF TakesRedirect(redirect_location, redirect_settings)
           THEN LET inc == increment(redirect_settings, response,
                                     redirect_location)
                    http_request == ReplacedRequest(inc.http_request)
                    flagged == FlagsDomainChange(original_domain, http_request)
                IN /\ redirects_remaining' = inc.remaining
                   /\ redirect_settings' = inc.settings
                   /\ request' = http_request
                   /\ options' = OptionsAfterHop(options, flagged)
                   /\ flag_writes' = IF flagged
                                     THEN Append(flag_writes, response.hop)
                                     ELSE flag_writes
                   /\ IF LoopContinues(inc.remaining)
                      THEN /\ pc' = "forward"
                           /\ raised' = raised
                      ELSE /\ pc' = "raised"
                           /\ raised' = RaisedHistory(inc.settings)
                   /\ returned' = returned
           ELSE /\ pc' = "returned"
                /\ returned' = ReturnedResponse(response)
                /\ UNCHANGED << request, options, redirect_settings,
                                redirects_remaining, flag_writes, raised >>
  /\ UNCHANGED << policy_kwargs, failure, self_allow, self_max_redirects,
                  cleanup_downstream, original_domain, forwarded,
                  original_request, original_options, outside_send >>

ReceiveResponse == \E status \in Statuses, location \in Locations :
                     Receive(status, location)

\* line 76, the await resumes with an error of the next stage: send has no
\* handler around the await, the error leaves send as it is
Fail(error) ==
  /\ pc = "awaiting"
  /\ pc' = "error"
  /\ failure' = [next_stage |-> error, send |-> PropagatedError(error)]
  /\ UNCHANGED << policy_kwargs, self_allow, self_max_redirects,
                  cleanup_downstream, request, options, redirect_settings,
                  original_domain, redirects_remaining, forwarded, received,
                  flag_writes, original_request, original_options, returned,
                  raised, outside_send >>

NextStageFails == \E error \in TransportErrors : Fail(error)

Next == Start \/ Forward \/ ReceiveResponse \/ NextStageFails

Spec == Init /\ [][Next]_vars

----------------------------------------------------------------------------
\* Vocabulary of the properties

IsRedirect(response) == get_redirect_location(response) # NoLocation

OriginalDomain == get_domain(original_request.url)

RedirectsReceived == SelectSeq(received, IsRedirect)

FlagInContext == OptionGet(options, "insecure_domain_change", FALSE)

Range(seq) == {seq[i] : i \in 1..Len(seq)}

\* the number of redirect responses after which the budget is exhausted
HistoryLimit ==
  IF redirect_settings.max_redirects >= 1
  THEN redirect_settings.max_redirects
  ELSE 1

----------------------------------------------------------------------------
\* C1: with allow = false the response of the first forward is returned
\* unchanged whatever its status and location: the next stage is invoked
\* exactly once, nothing is appended to history, the request is not replaced
\* and the insecure-domain-change flag is not set.
C1_AllowFalseReturnsFirst ==
  (pc # "init" /\ ~redirect_settings.allow) =>
    /\ Len(forwarded) <= 1
    /\ redirect_settings.history = << >>
    /\ request = original_request
    /\ flag_writes = << >>
    /\ ~FlagInContext
    /\ pc # "raised"
    /\ Len(received) = 1 =>
         /\ pc = "returned"
         /\ Len(forwarded) = 1
         /\ returned = received[1]
         /\ returned.http_request = original_request

C1_Witness ==
  /\ pc = "returned"
  /\ ~redirect_settings.allow
  /\ returned.status = 302
  /\ returned.location \in Urls
  /\ get_domain(returned.location) # OriginalDomain

\* C2: a chain of k hops (k-1 redirect responses, then a non-redirect one)
\* with k <= max_redirects and allow = true is delivered: send returns the
\* response of hop k, the next stage was invoked k times, and history holds
\* exactly the k-1 redirect responses, without the delivered one.
C2_ChainWithinLimitDelivered ==
  LET k == Len(received)
  IN (/\ redirect_settings.allow
      /\ k >= 1
      /\ k <= redirect_settings.max_redirects
      /\ ~IsRedirect(received[k])) =>
       /\ pc = "returned"
       /\ returned = received[k]
       /\ Len(forwarded) = k
       /\ redirect_settings.history = SubSeq(received, 1, k - 1)
       /\ \A i \in 1..(k - 1) : IsRedirect(received[i])

C2_Witness ==
  /\ pc = "returned"
  /\ redirect_settings.allow
  /\ Len(received) = 3
  /\ redirect_settings.max_redirects = 3
  /\ Len(redirect_settings.history) = 2

C5_NeverRaisedEarly ==
  /\ pc = "raised" =>
       Len(RedirectsReceived) >= redirect_settings.max_redirects
  /\ Len(RedirectsReceived) < redirect_settings.max_redirects =>
       pc # "raised"

C5_Witness ==
  /\ pc = "raised"
  /\ redirect_settings.max_redirects = 2
  /\ Len(RedirectsReceived) = 2

\* C6: the history carried by the too-many-redirects error is the ordered
\* sequence of the redirect responses of the call: one entry per redirect
\* hop, in hop order, none dropped, duplicated or reordered.
C6_ErrorCarriesFullHistory ==
  pc = "raised" =>
    /\ raised = RedirectsReceived
    /\ \A i \in 1..Len(raised) : raised[i].hop = i

C6_Witness ==
  /\ pc = "raised"
  /\ Len(raised) = 3
  /\ raised[1] # raised[2]
  /\ raised[2] # raised[3]

C8_FlagSetBeforeResend ==
  \A i \in 2..Len(forwarded) :
    get_domain(forwarded[i].http_request.url) # OriginalDomain =>
      forwarded[i].insecure_domain_change

\* the flag was consumed downstream after the first cross-domain forward and
\* is set again at the next one
C8_Witness ==
  /\ cleanup_downstream
  /\ Len(forwarded) = 3
  /\ get_domain(forwarded[2].http_request.url) # OriginalDomain
  /\ get_domain(forwarded[3].http_request.url) # OriginalDomain
  /\ forwarded[3].insecure_domain_change

C10_Original ==
  \A i, j \in 1..Len(forwarded) :
    (i < j /\ get_domain(forwarded[i].http_request.url) # OriginalDomain) =>
      get_domain(forwarded[j].http_request.url) # OriginalDomain

\* C10 (amended): the policy does not keep the request off the original
\* domain: the first forward is on the original domain and every later one
\* is on the domain of the target of the redirect response before it, so a
\* request that has left the original domain is forwarded to it again
\* exactly when a later redirect response targets it.
C10_DomainFollowsRedirects ==
  /\ forwarded # << >> =>
       get_domain(forwarded[1].http_request.url) = OriginalDomain
  /\ \A j \in 2..Len(forwarded) :
       /\ IsRedirect(received[j - 1])
       /\ get_domain(forwarded[j].http_request.url) =
            get_domain(received[j - 1].location)

\* the chain goes a.example -> b.example -> a.example
C10_Witness ==
  /\ Len(forwarded) = 3
  /\ get_domain(forwarded[2].http_request.url) # OriginalDomain
  /\ get_domain(forwarded[3].http_request.url) = OriginalDomain

----------------------------------------------------------------------------
Url(host, path) == [scheme |-> "http", host |-> host, path |-> path]

\* the status is a redirect status and the location header names a target
HasUsableLocation(response) ==
  response.status \in REDIRECT_STATUSES /\ response.location \in Urls

\* C11: a response delivered after at least one redirect carries a request
\* that points at the target of the last redirect taken, and every forward
\* after a redirect uses the request carried by the redirect response before
\* it, pointed at that response's location. For a.example/x -> 302
\* a.example/y -> 302 b.example/z -> 200 the delivered response has status
\* 200 and URL b.example/z, history has two entries and the flag was written
\* once, at the second hop.
C11_DeliveredRequestAtLastTarget ==
  /\ (pc = "returned" /\ Len(received) >= 2) =>
       /\ returned.hop = Len(received)
       /\ returned.http_request.url = received[Len(received) - 1].location
  /\ \A j \in 2..Len(forwarded) :
       forwarded[j].http_request =
         [received[j - 1].http_request EXCEPT
            !.url = received[j - 1].location]
  /\ (/\ original_request.url = Url("a.example", "x")
      /\ Len(received) = 3
      /\ received[1].status = 302
      /\ received[1].location = Url("a.example", "y")
      /\ received[2].status = 302
      /\ received[2].location = Url("b.example", "z")
      /\ received[3].status = 200) =>
       /\ pc = "returned"
       /\ returned.status = 200
       /\ returned.http_request.url = Url("b.example", "z")
       /\ Len(redirect_settings.history) = 2
       /\ flag_writes = << 2 >>

C11_Witness ==
  /\ pc = "returned"
  /\ original_request.url = Url("a.example", "x")
  /\ Len(received) = 3
  /\ received[1].status = 302
  /\ received[1].location = Url("a.example", "y")
  /\ received[2].status = 302
  /\ received[2].location = Url("b.example", "z")
  /\ returned.status = 200
  /\ returned.location = NoLocation

\* C12: a response is taken as a redirect only when its status is in the
\* redirect set and it carries a usable location. A response that lacks
\* either (redirect status with a missing or invalid location, other status
\* with a location) is delivered as it is: it is returned, no error is
\* raised, it is not appended to history and nothing is sent after it.
C12_OnlyUsableRedirectsFollowed ==
  \A i \in 1..Len(received) :
    /\ received[i] \in Range(redirect_settings.history) =>
         HasUsableLocation(received[i]) /\ redirect_settings.allow
    /\ ~HasUsableLocation(received[i]) =>
         /\ i = Len(received)
         /\ pc = "returned"
         /\ returned = received[i]
         /\ Len(forwarded) = i
         /\ raised = << >>
         /\ failure = NoFailure
         /\ ~ENABLED Forward

\* a 200 response with a location header, delivered after one redirect
C12_Witness ==
  /\ pc = "returned"
  /\ redirect_settings.allow
  /\ Len(received) = 2
  /\ returned.status = 200
  /\ returned.location \in Urls
  /\ Len(redirect_settings.history) = 1

\* C13: send returns a response only through the exit of line 88: the
\* response returned is the last one received, and it has no redirect
\* location or allow is false; a valid redirect received with allow = true
\* is never the response returned.
C13_SingleSuccessfulExit ==
  /\ pc = "returned" =>
       /\ returned = received[Len(received)]
       /\ ~HasUsableLocation(returned) \/ ~redirect_settings.allow
  /\ pc # "returned" => returned = NoResponse
  /\ \A i \in 1..Len(received) :
       (HasUsableLocation(received[i]) /\ redirect_settings.allow) =>
         returned # received[i]

\* a redirect status without location is returned after a redirect was taken
C13_Witness ==
  /\ pc = "returned"
  /\ redirect_settings.allow
  /\ Len(received) = 2
  /\ returned.status = 303
  /\ returned.location = BadLocation

\* C14: an error of the next stage, on the first hop or a later one, leaves
\* send as the error it is: send fails with that error, the next stage is
\* not invoked again, and no too-many-redirects error is raised.
C14_TransportErrorSurfaced ==
  /\ pc = "error" =>
       /\ failure.next_stage \in TransportErrors
       /\ failure.send = failure.next_stage
       /\ Len(forwarded) = Len(received) + 1
       /\ raised = << >>
       /\ returned = NoResponse
       /\ ~ENABLED Forward
  /\ pc # "error" => failure = NoFailure

C14_Witness ==
  /\ pc = "error"
  /\ Len(forwarded) = 3
  /\ failure.send = "ServiceResponseError"

\* the setting a call is to run with: the option of the call if it was
\* passed, else the keyword of the policy if it was passed, else the default
SettingInForce(name, default) ==
  IF name \in DOMAIN original_options THEN original_options[name]
  ELSE IF name \in DOMAIN policy_kwargs THEN policy_kwargs[name]
  ELSE default

\* C16: the redirect settings of a call are derived once, at its start: an
\* option of the call (permit_redirects, redirect_max) takes precedence over
\* the configuration of the policy, without either allow is true and
\* max_redirects is 30, and the settings keep these values while the call
\* loops.
C16_SettingsDerivedOnce ==
  pc # "init" =>
    /\ redirect_settings.allow = SettingInForce("permit_redirects", TRUE)
    /\ redirect_settings.max_redirects = SettingInForce("redirect_max", 30)

\* looping with a limit of the call that overrides the limit of the policy,
\* and allow by default
C16_Witness ==
  /\ pc = "forward"
  /\ Len(received) = 2
  /\ "permit_redirects" \notin DOMAIN original_options
  /\ "permit_redirects" \notin DOMAIN policy_kwargs
  /\ "redirect_max" \in DOMAIN original_options
  /\ "redirect_max" \in DOMAIN policy_kwargs
  /\ original_options["redirect_max"] = 3
  /\ policy_kwargs["redirect_max"] = 1

----------------------------------------------------------------------------
\* The blocking redirect policy, after the transition algorithm of the
\* design document (4.2): the whole call runs without suspension against the
\* answers the next stage gives, in order.

RECURSIVE RedirectPolicy_loop(_, _, _)
RedirectPolicy_loop(call, answers, i) ==
  IF call.state # "FOLLOWING" \/ i > Len(answers) THEN call
  ELSE
    LET \* step 1
        sent == Append(call.forwarded,
                  [http_request |-> call.request,
                   insecure_domain_change |->
                     OptionGet(call.options, "insecure_domain_change", FALSE)])
        context == DownstreamOptions(call.options)
        response == PipelineResponse(answers[i].status, answers[i].location,
                                     call.request, i)
        \* step 2
        redirect_location ==
          IF response.status \in REDIRECT_STATUSES
               /\ IsValidLocation(response.location)
          THEN response.location
          ELSE NoLocation
    IN IF redirect_location = NoLocation \/ ~call.allow
       THEN \* step 3
            [call EXCEPT !.state = "DELIVERED", !.delivered = response,
                         !.forwarded = sent, !.options = context]
       ELSE \* step 4
            LET history == Append(call.history, response)
            IN IF Len(history) >= call.max_redirects
               THEN [call EXCEPT !.state = "EXCEEDED", !.history = history,
                                 !.forwarded = sent, !.options = context]
               ELSE \* steps 5 and 6
                    LET changed ==
                          get_domain(redirect_location) # call.original_domain
                    IN RedirectPolicy_loop(
                         [call EXCEPT
                            !.history = history,
                            !.forwarded = sent,
                            !.request = [call.request EXCEPT
                                           !.url = redirect_location],
                            !.options =
                              IF changed
                              THEN OptionSet(context,
                                             "insecure_domain_change", TRUE)
                              ELSE context,
                            !.flag_writes =
                              IF changed
                              THEN Append(call.flag_writes, i)
                              ELSE call.flag_writes],
                         answers, i + 1)

\* per-call setup, then the loop
RedirectPolicy_send(http_request, call_options, answers) ==
  LET settings == configure_redirects(call_options)
  IN RedirectPolicy_loop(
       [state |-> "FOLLOWING",
        allow |-> settings.allow,
        max_redirects |-> settings.max_redirects,
        history |-> << >>,
        original_domain |->
          IF settings.allow THEN get_domain(http_request.url) ELSE NoDomain,
        request |-> http_request,
        options |-> call_options,
        forwarded |-> << >>,
        flag_writes |-> << >>,
        delivered |-> NoResponse],
       answers, 1)

\* the blocking policy run on the request, the options and the answers of
\* the async call
BlockingRun ==
  RedirectPolicy_send(original_request, original_options,
    [i \in 1..Len(received) |->
       [status |-> received[i].status, location |-> received[i].location]])

SameOutcome(blocking) ==
  /\ (pc = "returned") = (blocking.state = "DELIVERED")
  /\ (pc = "raised") = (blocking.state = "EXCEEDED")
  /\ blocking.delivered = returned
  /\ pc = "raised" => blocking.history = raised
  /\ blocking.history = redirect_settings.history
  /\ blocking.forwarded = forwarded

----------------------------------------------------------------------------
\* Concurrent send calls on one configured policy instance. Each call has
\* its own request and context and its own coroutine frame (the locals of
\* send); the policy instance is what they share. A call runs from one
\* suspension point (the await of line 76) to the next without interleaving.

Calls == {1, 2}

\* the redirect limit the shared policy is configured with
ConcurrentRedirectMax == 2

ConcurrentRequests ==
  {HttpRequest(Url("a.example", "x")), HttpRequest(Url("b.example", "z"))}

ConcurrentOptions ==
  { [k \in {} |-> TRUE],
    [k \in {"redirect_max"} |-> 1],
    [k \in {"permit_redirects"} |-> FALSE] }

ConcurrentStatuses == {200, 302}

ConcurrentLocations ==
  {NoLocation, Url("a.example", "y"), Url("b.example", "z")}

\* a call as send is entered
NewCall(http_request, call_options) ==
  [pc |-> "init",
   request |-> http_request,
   options |-> call_options,
   redirect_settings |-> NoSettings,
   original_domain |-> NoDomain,
   redirects_remaining |-> TRUE,
   forwarded |-> << >>,
   received |-> << >>,
   flag_writes |-> << >>,
   returned |-> NoResponse,
   raised |-> << >>,
   failure |-> NoFailure,
   original_request |-> http_request,
   original_options |-> call_options]

\* lines 72-74
Started(call) ==
  LET settings == ConfiguredSettings(call.options)
  IN [call EXCEPT !.redirect_settings = settings,
                  !.original_domain = CapturedDomain(call.request, settings),
                  !.redirects_remaining = TRUE,
                  !.pc = "forward"]

\* line 76, the call
Forwarded(call) ==
  [call EXCEPT
     !.forwarded = Append(call.forwarded,
        [http_request |-> call.request,
         insecure_domain_change |->
           OptionGet(call.options, "insecure_domain_change", FALSE)]),
     !.options = DownstreamOptions(call.options),
     !.pc = "awaiting"]

\* line 76, the await resumes with a response; lines 77-90
Resumed(call, status, location) ==
  LET response == PipelineResponse(status, location, call.request,
                                   Len(call.received) + 1)
      redirect_location == get_redirect_location(response)
  IN IF TakesRedirect(redirect_location, call.redirect_settings)
     THEN LET inc == increment(call.redirect_settings, response,
                               redirect_location)
              http_request == ReplacedRequest(inc.http_request)
              flagged == FlagsDomainChange(call.original_domain, http_request)
              continues == LoopContinues(inc.remaining)
          IN [call EXCEPT
                !.received = Append(call.received, response),
                !.redirects_remaining = inc.remaining,
                !.redirect_settings = inc.settings,
                !.request = http_request,
                !.options = IF flagged
                            THEN WithDomainChangeFlag(call.options)
                            ELSE call.options,
                !.flag_writes = IF flagged
                                THEN Append(call.flag_writes, response.hop)
                                ELSE call.flag_writes,
                !.pc = IF continues THEN "forward" ELSE "raised",
                !.raised = IF continues
                           THEN call.raised
                           ELSE RaisedHistory(inc.settings)]
     ELSE [call EXCEPT !.received = Append(call.received, response),
                       !.pc = "returned",
                       !.returned = ReturnedResponse(response)]

\* line 76, the await resumes with an error of the next stage
Failed(call, error) ==
  [call EXCEPT !.pc = "error",
               !.failure = [next_stage |-> error,
                            send |-> PropagatedError(error)]]

\* the settings of a call kept in one place for all calls
FrameSharingSettings(c) ==
  [calls[c] EXCEPT !.redirect_settings = calls[1].redirect_settings]

\* lines 72-74: the settings and the original domain of a call are locals of
\* its own send
Frame(c) == calls[c]

InitConcurrent ==
  /\ policy_kwargs = [k \in {"redirect_max"} |-> ConcurrentRedirectMax]
  /\ failure = NoFailure
  /\ self_allow =
       OptionGet(policy_kwargs, "permit_redirects", DefaultPermitRedirects)
  /\ self_max_redirects =
       OptionGet(policy_kwargs, "redirect_max", DefaultRedirectMax)
  /\ cleanup_downstream \in BOOLEAN
  /\ pc = "init"
  /\ request = HttpRequest(Url("a.example", "x"))
  /\ options = [k \in {} |-> TRUE]
  /\ redirect_settings = NoSettings
  /\ original_domain = NoDomain
  /\ redirects_remaining = TRUE
  /\ forwarded = << >>
  /\ received = << >>
  /\ flag_writes = << >>
  /\ original_request = request
  /\ original_options = options
  /\ returned = NoResponse
  /\ raised = << >>
  /\ calls \in [Calls -> {NewCall(r, o) : r \in ConcurrentRequests,
                                          o \in ConcurrentOptions}]
  /\ NoPipeline
  /\ NoPoller
  /\ NoClientCall
  /\ NoCompose

StartCall(c) ==
  /\ calls[c].pc = "init"
  /\ calls' = [calls EXCEPT ![c] = Started(Frame(c))]
  /\ UNCHANGED << send_vars, pipeline_vars, poller_vars, client_calls, composed >>

ForwardCall(c) ==
  /\ calls[c].pc = "forward"
  /\ calls' = [calls EXCEPT ![c] = Forwarded(Frame(c))]
  /\ UNCHANGED << send_vars, pipeline_vars, poller_vars, client_calls, composed >>

ResumeCall(c) ==
  /\ calls[c].pc = "awaiting"
  /\ \E status \in ConcurrentStatuses, location \in ConcurrentLocations :
       calls' = [calls EXCEPT ![c] = Resumed(Frame(c), status, location)]
  /\ UNCHANGED << send_vars, pipeline_vars, poller_vars, client_calls, composed >>

FailCall(c) ==
  /\ calls[c].pc = "awaiting"
  /\ \E error \in TransportErrors :
       calls' = [calls EXCEPT ![c] = Failed(Frame(c), error)]
  /\ UNCHANGED << send_vars, pipeline_vars, poller_vars, client_calls, composed >>

NextConcurrent ==
  \E c \in Calls : StartCall(c) \/ ForwardCall(c) \/ ResumeCall(c) \/ FailCall(c)

SpecConcurrent == InitConcurrent /\ [][NextConcurrent]_vars

\* a call run alone on the request and options it was made with, against
\* the answers it received
RECURSIVE AloneAfter(_, _, _)
AloneAfter(call, answers, i) ==
  IF i > Len(answers) THEN call
  ELSE AloneAfter(Resumed(Forwarded(call), answers[i].status,
                          answers[i].location),
                  answers, i + 1)

RunAlone(observed) ==
  LET fresh == NewCall(observed.original_request, observed.original_options)
      resumed == IF observed.pc = "init" THEN fresh
                 ELSE AloneAfter(Started(fresh), observed.received, 1)
      waiting == IF Len(observed.forwarded) > Len(observed.received)
                 THEN Forwarded(resumed)
                 ELSE resumed
  IN IF observed.failure # NoFailure
     THEN Failed(waiting, observed.failure.next_stage)
     ELSE waiting

----------------------------------------------------------------------------
\* The pipeline: an ordered chain of policies that ends in the transport.
\* Every policy but the redirect policy passes the request on once and hands
\* the response back; the redirect policy calls its next stage again for
\* every redirect it takes (lines 75-77).

\* most policies a pipeline is built from
MaxPolicies == 4

\* most calls of the redirect policy to its next stage in one pipeline call
MaxNextSends == 3

\* no single send call is modelled
NoSend ==
  /\ policy_kwargs = [k \in {} |-> TRUE]
  /\ failure = NoFailure
  /\ self_allow = DefaultPermitRedirects
  /\ self_max_redirects = DefaultRedirectMax
  /\ cleanup_downstream = FALSE
  /\ pc = "init"
  /\ request = HttpRequest(Url("a.example", "x"))
  /\ options = [k \in {} |-> TRUE]
  /\ redirect_settings = NoSettings
  /\ original_domain = NoDomain
  /\ redirects_remaining = TRUE
  /\ forwarded = << >>
  /\ received = << >>
  /\ flag_writes = << >>
  /\ original_request = request
  /\ original_options = options
  /\ returned = NoResponse
  /\ raised = << >>

Transport == policies + 1

Enter(stage) == [event |-> "enter", stage |-> stage]

Leave(stage) == [event |-> "leave", stage |-> stage]

\* the redirect policy starting over at the head of the pipeline
HeadOfPipeline(stage) == 1

\* line 76: self.next, the stage after this one
NextStage(stage) == stage + 1

InitPipeline ==
  /\ NoSend
  /\ calls = << >>
  /\ NoPoller
  /\ NoClientCall
  /\ NoCompose
  /\ policies \in 1..MaxPolicies
  /\ redirect_at \in 1..policies
  /\ stack = << >>
  /\ direction = "down"
  /\ next_sends = 0
  /\ trace = << >>

\* Pipeline.send: the first policy is invoked
InvokePipeline ==
  /\ stack = << >>
  /\ trace = << >>
  /\ stack' = << 1 >>
  /\ trace' = << Enter(1) >>
  /\ direction' = "down"
  /\ UNCHANGED << policies, redirect_at, next_sends, send_vars, calls,
                  poller_vars, client_calls, composed >>

\* a policy that has the request calls its next stage; for the redirect
\* policy this is the first pass of line 76
PolicySendsOn ==
  /\ stack # << >>
  /\ direction = "down"
  /\ LET stage == stack[Len(stack)]
     IN /\ stage # Transport
        /\ stack' = Append(stack, NextStage(stage))
        /\ trace' = Append(trace, Enter(NextStage(stage)))
        /\ next_sends' = IF stage = redirect_at THEN next_sends + 1
                         ELSE next_sends
  /\ UNCHANGED << policies, redirect_at, direction, send_vars, calls,
                  poller_vars, client_calls, composed >>

\* the transport performs the exchange and hands the response back
TransportResponds ==
  /\ stack # << >>
  /\ direction = "down"
  /\ stack[Len(stack)] = Transport
  /\ stack' = SubSeq(stack, 1, Len(stack) - 1)
  /\ trace' = Append(trace, Leave(Transport))
  /\ direction' = "up"
  /\ UNCHANGED << policies, redirect_at, next_sends, send_vars, calls,
                  poller_vars, client_calls, composed >>

\* a policy that has the response hands it back (line 88 for the redirect
\* policy)
PolicyReturns ==
  /\ stack # << >>
  /\ direction = "up"
  /\ trace' = Append(trace, Leave(stack[Len(stack)]))
  /\ stack' = SubSeq(stack, 1, Len(stack) - 1)
  /\ UNCHANGED << policies, redirect_at, direction, next_sends, send_vars,
                  calls, poller_vars, client_calls, composed >>

\* the redirect policy takes a redirect: lines 78-87, then line 76 again
RedirectSendsAgain ==
  /\ stack # << >>
  /\ direction = "up"
  /\ stack[Len(stack)] = redirect_at
  /\ next_sends < MaxNextSends
  /\ stack' = Append(stack, NextStage(redirect_at))
  /\ trace' = Append(trace, Enter(NextStage(redirect_at)))
  /\ next_sends' = next_sends + 1
  /\ direction' = "down"
  /\ UNCHANGED << policies, redirect_at, send_vars, calls, poller_vars, client_calls, composed >>

NextPipeline ==
  \/ InvokePipeline
  \/ PolicySendsOn
  \/ TransportResponds
  \/ PolicyReturns
  \/ RedirectSendsAgain

SpecPipeline == InitPipeline /\ [][NextPipeline]_vars

Entries(stage) ==
  Cardinality({i \in 1..Len(trace) : trace[i] = Enter(stage)})

Exits(stage) ==
  Cardinality({i \in 1..Len(trace) : trace[i] = Leave(stage)})

PipelineDone == stack = << >> /\ trace # << >>

\* C17: a pipeline call enters policy 1, then policy 2, ... then the
\* transport, and the responses unwind in the reverse order; each call of
\* the redirect policy to its next stage enters every later stage and the
\* transport once, and no stage before the redirect policy, nor the redirect
\* policy itself, is entered again.
C17_PipelineOrder ==
  /\ \A i \in 1..Len(stack) : stack[i] = i
  /\ \A i \in 1..Len(trace) :
       i <= Transport => trace[i] = Enter(i)
  /\ \A stage \in 1..redirect_at : Entries(stage) <= 1
  /\ \A stage \in (redirect_at + 1)..Transport :
       /\ Entries(stage) <= next_sends
       /\ Entries(stage) >= next_sends - 1
       /\ (direction = "up" \/ stage \in Range(stack)) =>
            Entries(stage) = next_sends
  /\ PipelineDone =>
       /\ \A stage \in 1..Transport : Exits(stage) = Entries(stage)
       /\ \A stage \in 1..Transport :
            trace[Len(trace) + 1 - stage] = Leave(stage)

\* a pipeline of three policies with the redirect policy in the middle has
\* returned after two redirects
C17_Witness ==
  /\ PipelineDone
  /\ policies = 3
  /\ redirect_at = 2
  /\ next_sends = 3
  /\ Entries(1) = 1
  /\ Entries(3) = 3
  /\ Entries(4) = 3

\* ---------------------------------------------------------------------
\* The long-running-operation poller: one poller, owned by one caller that
\* calls done(), poll_once(), wait() and result() one after another and may
\* abandon a wait at either suspension point.
\* ---------------------------------------------------------------------

\* most invocations of the status-check callable, and most calls of done()
MaxStatusChecks == 3
MaxDoneCalls == 2

\* most calls of result()
MaxResultCalls == 2

\* the keyword arguments of the client method: _polling_interval or not,
\* and a keyword meant for the service call
PollerKwargs ==
  { [k \in D |-> IF k = "timeout" THEN 1 ELSE interval] :
      D \in SUBSET {"_polling_interval", "timeout"}, interval \in {0, 1} }

DefaultPollingInterval == 2

\* polling_interval = kwargs.pop("_polling_interval", None);
\* "if polling_interval is None: polling_interval = 2"
PollingInterval(kwargs) ==
  OptionGet(kwargs, "_polling_interval", DefaultPollingInterval)

\* recovery_id of a resource deleted from a vault without soft-delete
None == "None"

\* the client methods that hand a poller to their caller, and the
\* coroutines that run the polling method themselves
PollerMethods == {"begin_delete_key", "begin_recover_deleted_key"}
CoroutineMethods == {"delete_secret", "recover_deleted_secret"}
DeleteMethods == {"begin_delete_key", "delete_secret"}

\* the operation of the generated client a client method begins with
InitialCall(method) ==
  CASE method = "begin_delete_key" -> "delete_key"
    [] method = "delete_secret" -> "delete_secret"
    [] method = "begin_recover_deleted_key" -> "recover_deleted_key"
    [] method = "recover_deleted_secret" -> "recover_deleted_secret"

\* the client method bound into the status-check command
StatusCommand(method) ==
  CASE method = "begin_delete_key" -> "get_deleted_key"
    [] method = "delete_secret" -> "get_deleted_secret"
    [] method = "begin_recover_deleted_key" -> "get_key"
    [] method = "recover_deleted_secret" -> "get_secret"

\* kwargs.get("_polling_interval") in place of the pop
PassedOnWhole(kwargs) == kwargs

\* kwargs after kwargs.pop("_polling_interval", None)
PassedOn(kwargs) == OptionPop(kwargs, "_polling_interval")

\* the initial call "self._client.delete_key(key_name=name, cls=..., **kwargs)"
\* and the command "partial(self.get_deleted_key, name=name, **kwargs)"
Construction(method, kwargs) ==
  [kwargs |-> kwargs,
   service_call |-> [operation |-> InitialCall(method),
                     kwargs |-> PassedOn(kwargs)],
   command |-> [function |-> StatusCommand(method),
                kwargs |-> PassedOn(kwargs)]]

\* the resource deserialized from the answer to the initial request; a
\* deleted key or secret of a vault with soft-delete carries a recovery ID
RecoveryIds == {None, "recovery-id"}
InitialResources(method) ==
  CASE method = "begin_delete_key" ->
         {[type |-> "DeletedKey", recovery_id |-> r] : r \in RecoveryIds}
    [] method = "delete_secret" ->
         {[type |-> "DeletedSecret", recovery_id |-> r] : r \in RecoveryIds}
    [] method = "begin_recover_deleted_key" -> {[type |-> "KeyVaultKey"]}
    [] method = "recover_deleted_secret" -> {[type |-> "SecretProperties"]}

StartsFinishedWithRecoveryId(method, resource) ==
  method \in DeleteMethods /\ resource.recovery_id # None

NeverStartsFinished(method, resource) == FALSE

StartsFinishedAlways(method, resource) == TRUE

\* the finished argument of the polling method
StartsFinished(method, resource) ==
  method \in DeleteMethods /\ resource.recovery_id = None

\* what a status check can report
StatusResponses == {"working", "completed", "failed"}

\* terminal-ness decided from a response
Interpret(response) ==
  CASE response = "working" -> "InProgress"
    [] response = "completed" -> "Succeeded"
    [] response = "failed" -> "Failed"

finished(st) == st # "InProgress"

DoneOnlyWhenSucceeded(st) == st = "Succeeded"

\* done(): the non-blocking query
done_value(st) == finished(st)

NeverSkipsPoll(st) == FALSE

\* poll_once(): "if already terminal, no-op"
SkipsPoll(st) == finished(st)

\* wait(): polls again "until terminal"
KeepsWaiting(st) == ~finished(st)

ResultSuspendsUntilTerminal(st) == ~finished(st)

\* result(): "returns the DeletedKey without waiting for deletion to complete"
ResultSuspends(st) == FALSE

Ended(op, outcome) == [operation |-> op, outcome |-> outcome]

StatusCheck == [event |-> "check"]
Sleep(seconds) == [event |-> "sleep", seconds |-> seconds]

PollingStartedAtConstruction ==
  /\ begun_by \in PollerMethods \cup CoroutineMethods
  /\ final_resource \in InitialResources(begun_by)
  /\ poller_status = IF StartsFinished(begun_by, final_resource)
                       THEN "Succeeded" ELSE "InProgress"
  /\ last_response = "initial"
  /\ \E kwargs \in PollerKwargs :
       /\ poll_interval = PollingInterval(kwargs)
       /\ begun_with = Construction(begun_by, kwargs)
  /\ caller = "checking"
  /\ operation = "none"
  /\ status_checks = 1
  /\ sleeps = 0
  /\ done_returns = << >>
  /\ last_call = Ended("none", "none")
  /\ results = << >>
  /\ attempts = << StatusCheck >>
  /\ cancellations = 0
  /\ check_errors = 0
  /\ NoSend
  /\ calls = << >>
  /\ NoPipeline
  /\ NoClientCall
  /\ NoCompose

\* the polling method as the client method constructs it
InitPoller ==
  /\ begun_by \in PollerMethods \cup CoroutineMethods
  /\ final_resource \in InitialResources(begun_by)
  /\ poller_status = IF StartsFinished(begun_by, final_resource)
                       THEN "Succeeded" ELSE "InProgress"
  /\ last_response = "initial"
  /\ \E kwargs \in PollerKwargs :
       /\ poll_interval = PollingInterval(kwargs)
       /\ begun_with = Construction(begun_by, kwargs)
  /\ caller = "idle"
  /\ operation = "none"
  /\ status_checks = 0
  /\ sleeps = 0
  /\ done_returns = << >>
  /\ last_call = Ended("none", "none")
  /\ results = << >>
  /\ attempts = << >>
  /\ cancellations = 0
  /\ check_errors = 0
  /\ NoSend
  /\ calls = << >>
  /\ NoPipeline
  /\ NoClientCall
  /\ NoCompose

outside_poller == << send_vars, calls, pipeline_vars, client_calls, composed >>

poller_state == << poller_status, last_response, final_resource, poll_interval >>

\* done()
Done ==
  /\ begun_by \in PollerMethods
  /\ caller = "idle"
  /\ Len(done_returns) < MaxDoneCalls
  /\ done_returns' = Append(done_returns, done_value(poller_status))
  /\ last_call' = Ended("done", "returned")
  /\ UNCHANGED << poller_state, caller, operation, status_checks, sleeps,
                  begun_by, begun_with, results, attempts, cancellations, check_errors,
                  outside_poller >>

\* the caller enters the status-check callable
InvokeStatusCheck(op) ==
  /\ status_checks < MaxStatusChecks
  /\ status_checks' = status_checks + 1
  /\ caller' = "checking"
  /\ operation' = op
  /\ attempts' = Append(IF caller = "idle" THEN << >> ELSE attempts, StatusCheck)

\* result() and the coroutines hand out the resource of the polling method
HandsOut(op) == op \in {"result", "run"}

HandedOut(op, st) ==
  IF HandsOut(op)
    THEN Append(results, [by |-> op, resource |-> final_resource,
                          finished |-> finished(st)])
    ELSE results

\* poll_once(), up to the status check
PollOnce ==
  /\ begun_by \in PollerMethods
  /\ caller = "idle"
  /\ IF SkipsPoll(poller_status)
       THEN /\ last_call' = Ended("poll_once", "returned")
            /\ attempts' = << >>
            /\ UNCHANGED << caller, operation, status_checks >>
       ELSE /\ InvokeStatusCheck("poll_once")
            /\ UNCHANGED last_call
  /\ UNCHANGED << poller_state, sleeps, done_returns, begun_by, begun_with, results,
                  cancellations, check_errors, outside_poller >>

\* an operation that suspends the caller, up to the first status check;
\* it returns at once when it has nothing to wait for
Suspend(op, suspends) ==
  /\ caller = "idle"
  /\ IF suspends
       THEN /\ InvokeStatusCheck(op)
            /\ UNCHANGED << last_call, results >>
       ELSE /\ last_call' = Ended(op, "returned")
            /\ results' = HandedOut(op, poller_status)
            /\ attempts' = << >>
            /\ UNCHANGED << caller, operation, status_checks >>
  /\ UNCHANGED << poller_state, sleeps, done_returns, begun_by, begun_with, cancellations,
                  check_errors, outside_poller >>

\* wait()
Wait ==
  /\ begun_by \in PollerMethods
  /\ Suspend("wait", KeepsWaiting(poller_status))

\* result()
Result ==
  /\ begun_by \in PollerMethods
  /\ Len(results) < MaxResultCalls
  /\ Suspend("result", ResultSuspends(poller_status))

ResourceWithoutRun ==
  /\ begun_by \in CoroutineMethods
  /\ last_call = Ended("none", "none")
  /\ Suspend("run", FALSE)

\* "await polling_method.run()", then "return polling_method.resource()"
Run ==
  /\ begun_by \in CoroutineMethods
  /\ last_call = Ended("none", "none")
  /\ Suspend("run", KeepsWaiting(poller_status))

SleepsAfterEveryAttempt(op, st) == op # "poll_once"

\* wait(): "a sleep of poll_interval between attempts, until terminal"
SleepsAfter(op, st) == op # "poll_once" /\ KeepsWaiting(st)

\* the status check answers: the attempt completes and the state is updated
StatusCheckReturns(response) ==
  /\ caller = "checking"
  /\ poller_status' = Interpret(response)
  /\ last_response' = response
  /\ IF SleepsAfter(operation, Interpret(response))
       THEN /\ caller' = "sleeping"
            /\ sleeps' = sleeps + 1
            /\ attempts' = Append(attempts, Sleep(poll_interval))
            /\ UNCHANGED << operation, last_call, results >>
       ELSE /\ caller' = "idle"
            /\ operation' = "none"
            /\ last_call' = Ended(operation, "returned")
            /\ results' = HandedOut(operation, Interpret(response))
            /\ UNCHANGED << sleeps, attempts >>
  /\ UNCHANGED << final_resource, poll_interval, status_checks, done_returns,
                  begun_by, begun_with, cancellations, check_errors, outside_poller >>

StatusCheckAnswers == \E response \in StatusResponses : StatusCheckReturns(response)

ErrorTakenAsStillWorking ==
  /\ last_response' = last_response
  /\ IF SleepsAfter(operation, poller_status)
       THEN /\ caller' = "sleeping"
            /\ sleeps' = sleeps + 1
            /\ attempts' = Append(attempts, Sleep(poll_interval))
            /\ UNCHANGED << operation, last_call >>
       ELSE /\ caller' = "idle"
            /\ operation' = "none"
            /\ last_call' = Ended(operation, "returned")
            /\ UNCHANGED << sleeps, attempts >>

\* the error of a status check reaches the caller of the operation
ErrorSurfaces ==
  /\ caller' = "idle"
  /\ operation' = "none"
  /\ last_call' = Ended(operation, "raised")
  /\ UNCHANGED << last_response, sleeps, attempts >>

\* the status check errors
StatusCheckRaises ==
  /\ caller = "checking"
  /\ check_errors' = check_errors + 1
  /\ ErrorSurfaces
  /\ UNCHANGED << poller_status, final_resource, poll_interval, status_checks,
                  done_returns, begun_by, begun_with, results, cancellations,
                  outside_poller >>

\* the sleep of poll_interval is over: the next attempt
WakeUp ==
  /\ caller = "sleeping"
  /\ InvokeStatusCheck(operation)
  /\ UNCHANGED << poller_state, sleeps, done_returns, last_call, begun_by, begun_with,
                  results, cancellations, check_errors, outside_poller >>

AbandonsHalfUpdated ==
  /\ last_response' = "completed"
  /\ UNCHANGED << poller_status, final_resource, poll_interval >>

\* an abandoned attempt leaves no partial update
Abandons == UNCHANGED poller_state

\* the caller abandons the operation at a suspension point
Cancel ==
  /\ caller \in {"checking", "sleeping"}
  /\ caller' = "idle"
  /\ operation' = "none"
  /\ last_call' = Ended(operation, "cancelled")
  /\ cancellations' = cancellations + 1
  /\ Abandons
  /\ UNCHANGED << status_checks, sleeps, done_returns, begun_by, begun_with, results,
                  attempts, check_errors, outside_poller >>

NextPoller ==
  \/ Done
  \/ PollOnce
  \/ Wait
  \/ Result
  \/ Run
  \/ StatusCheckAnswers
  \/ StatusCheckRaises
  \/ WakeUp
  \/ Cancel

SpecPoller == InitPoller /\ [][NextPoller]_vars

\* C19: the status of a poller is monotonic over every sequence of
\* poll_once, wait, result, done and cancellation: the only steps that
\* change it start from InProgress, so a terminal status never goes back to
\* InProgress and never becomes the other terminal status.
C19_StatusMonotonic ==
  [][finished(poller_status) => poller_status' = poller_status]_vars

\* a poller that failed during a wait, and was asked done() and told to
\* wait again afterwards
C19_Witness ==
  /\ poller_status = "Failed"
  /\ sleeps >= 1
  /\ done_returns = << FALSE, TRUE >>
  /\ last_call = Ended("wait", "returned")

\* C20: once a poller is terminal, every done() returns the same value
\* (true, the poller is terminal) and no step invokes the status-check
\* callable; poll_once() on it returns at once, without a status check and
\* with status, last response, final resource and poll interval as before.
C20_TerminalIdempotent ==
  [][finished(poller_status) =>
       /\ status_checks' = status_checks
       /\ poller_state' = poller_state
       /\ caller' = "idle"
       /\ sleeps' = sleeps
       /\ done_returns' # done_returns =>
            done_returns' = Append(done_returns, TRUE)]_vars

\* done() twice on a terminal poller, then poll_once()
C20_Witness ==
  /\ finished(poller_status)
  /\ status_checks >= 1
  /\ done_returns = << TRUE, TRUE >>
  /\ last_call = Ended("poll_once", "returned")

\* the polling method was built for a resource deleted without a recovery
\* ID, which is when the client methods pass finished = true
DeletedForGood ==
  begun_by \in DeleteMethods /\ final_resource.recovery_id = None

\* C21: a poller constructed with finished = true (the deleted resource has
\* no recovery ID) is terminal from creation: no operation on it invokes the
\* status check or sleeps, done() is true, and result(), like delete_secret,
\* hands out the resource given at construction.
C21_FinishedAtCreation ==
  DeletedForGood =>
    /\ finished(poller_status)
    /\ status_checks = 0
    /\ sleeps = 0
    /\ caller = "idle"
    /\ \A i \in 1..Len(done_returns) : done_returns[i]
    /\ \A i \in 1..Len(results) :
         results[i].resource = final_resource /\ results[i].finished

\* result() twice, done() twice and then wait() on the poller of a key
\* deleted from a vault without soft-delete
C21_Witness ==
  /\ begun_by = "begin_delete_key"
  /\ final_resource.recovery_id = None
  /\ Len(results) = 2
  /\ done_returns = << TRUE, TRUE >>
  /\ last_call = Ended("wait", "returned")

\* C22: the poller of begin_delete_key starts terminal exactly when the
\* deleted key has no recovery ID; the poller of begin_recover_deleted_key
\* starts not finished, so it is terminal only after at least one status
\* check.
C22_StartsTerminalIffNoRecoveryId ==
  /\ (begun_by = "begin_delete_key" /\ status_checks = 0) =>
       (finished(poller_status) <=> final_resource.recovery_id = None)
  /\ (begun_by = "begin_recover_deleted_key" /\ finished(poller_status)) =>
       status_checks >= 1

\* a recovery completed by the second status check of a wait()
C22_Witness ==
  /\ begun_by = "begin_recover_deleted_key"
  /\ poller_status = "Succeeded"
  /\ status_checks = 2
  /\ done_returns = << FALSE >>
  /\ last_call = Ended("wait", "returned")

\* The poller under a status check that reports a terminal state at the
\* latest at its MaxStatusChecks-th invocation; a sleep ends and a status
\* check answers unless the caller abandons the operation first.
StatusCheckCompletes ==
  \E response \in StatusResponses :
    /\ response = "working" => status_checks < MaxStatusChecks
    /\ StatusCheckReturns(response)

NextPollerLive ==
  \/ Done
  \/ PollOnce
  \/ Wait
  \/ Result
  \/ Run
  \/ StatusCheckCompletes
  \/ StatusCheckRaises
  \/ WakeUp
  \/ Cancel

SpecPollerLive ==
  /\ InitPoller
  /\ [][NextPollerLive]_vars
  /\ WF_vars(WakeUp)
  /\ WF_vars(StatusCheckCompletes)

Waited(outcome) ==
  last_call \in {Ended("wait", outcome), Ended("run", outcome)}

\* the attempts of one operation: status checks one after another with one
\* sleep of poll_interval between two of them
OneSleepBetweenAttempts ==
  /\ \A i \in 1..Len(attempts) :
       attempts[i] = IF i % 2 = 1 THEN StatusCheck ELSE Sleep(poll_interval)
  /\ caller = "checking" => Len(attempts) % 2 = 1
  /\ caller = "sleeping" => Len(attempts) > 0 /\ Len(attempts) % 2 = 0

\* C23: wait() (and the run() of the coroutines) returns normally only
\* when the poller is terminal; its attempts are separated by exactly one
\* sleep of poll_interval, with no sleep after the attempt that reaches the
\* terminal state; and when the status check eventually reports a terminal
\* state, a wait() under way ends.
C23_WaitUntilTerminal ==
  /\ [](Waited("returned") => finished(poller_status))
  /\ []OneSleepBetweenAttempts
  /\ [](caller = "sleeping" => ~finished(poller_status))
  /\ [](Waited("returned") /\ caller = "idle" => Len(attempts) % 2 = 1 \/ attempts = << >>)
  /\ (operation \in {"wait", "run"}) ~> (operation = "none")

\* a wait() that returned after three attempts and two sleeps of 2 seconds
C23_Witness ==
  /\ last_call = Ended("wait", "returned")
  /\ caller = "idle"
  /\ poll_interval = 2
  /\ attempts = << StatusCheck, Sleep(2), StatusCheck, Sleep(2), StatusCheck >>

\* the step is a return of result()
ResultReturns ==
  /\ Len(results') = Len(results) + 1
  /\ results'[Len(results')].by = "result"

\* C24 as stated: done() is true whenever result() has returned.
C24_Original ==
  \A i \in 1..Len(results) : results[i].by = "result" => results[i].finished

\* C24, amended: result() does not suspend; it hands out the resource given
\* at construction and leaves status, last response, final resource and
\* poll interval as they were, so done() after result() is true only if the
\* poller was terminal when result() was called.
C24_ResultLeavesPollerAsItWas ==
  [][ResultReturns =>
        /\ poller_state' = poller_state
        /\ results'[Len(results')].resource = final_resource
        /\ results'[Len(results')].finished = finished(poller_status)]_vars

\* result() returned on a poller that was, and still is, in progress
C24_Witness ==
  /\ begun_by = "begin_recover_deleted_key"
  /\ results = << [by |-> "result", resource |-> final_resource,
                   finished |-> FALSE] >>
  /\ last_call = Ended("result", "returned")
  /\ ~finished(poller_status)
  /\ status_checks = 1

\* C25: on the pollers of begin_delete_key and begin_recover_deleted_key,
\* result() is never inside a status check or a sleep and hands out the
\* resource of the initial response, whether or not the poller is finished;
\* wait() is the operation that returns only on a finished poller.
C25_ResultWithoutWaiting ==
  begun_by \in PollerMethods =>
    /\ operation # "result"
    /\ \A i \in 1..Len(results) : results[i].resource = final_resource
    /\ last_call = Ended("wait", "returned") => finished(poller_status)

\* result() handed out the deleted key while deletion was under way, and
\* done() was false right after
C25_Witness ==
  /\ begun_by = "begin_delete_key"
  /\ final_resource.recovery_id # None
  /\ status_checks = 0
  /\ Len(results) = 1
  /\ ~results[1].finished
  /\ done_returns = << FALSE >>
  /\ last_call = Ended("done", "returned")

C27_CancellationLeavesPollerConsistent ==
  /\ [][cancellations' # cancellations =>
          poller_state' = poller_state /\ caller' = "idle"]_vars
  /\ [][poller_state' # poller_state =>
          /\ caller = "checking"
          /\ cancellations' = cancellations
          /\ poller_status' = Interpret(last_response')
          /\ final_resource' = final_resource]_vars
  /\ [](last_call = Ended("wait", "cancelled") /\ caller = "idle"
          /\ status_checks < MaxStatusChecks => ENABLED Wait)

\* a wait() abandoned during its sleep, and a later wait() that reached
\* the terminal state
C27_Witness ==
  /\ cancellations = 1
  /\ status_checks = 2
  /\ attempts = << StatusCheck >>
  /\ sleeps = 1
  /\ poller_status = "Succeeded"
  /\ last_call = Ended("wait", "returned")

CallerDriven == {"poll_once", "wait", "result", "run"}

\* C28: the poller does nothing on its own: a status check or a sleep is
\* under way only inside poll_once(), wait(), result() or the run() of a
\* coroutine; every status check is issued by a step that enters or resumes
\* such an operation; between operations, and from construction to the first
\* of them, the poller's state does not change.
C28_NoBackgroundWork ==
  /\ [](caller # "idle" => operation \in CallerDriven)
  /\ [](last_call = Ended("none", "none") /\ caller = "idle" =>
          status_checks = 0 /\ sleeps = 0 /\ last_response = "initial")
  /\ [][status_checks' # status_checks =>
          /\ status_checks' = status_checks + 1
          /\ caller' = "checking"
          /\ operation' \in CallerDriven]_vars
  /\ [][caller = "idle" /\ caller' = "idle" =>
          /\ poller_state' = poller_state
          /\ status_checks' = status_checks
          /\ sleeps' = sleeps]_vars

\* done() and result() on a poller nobody has polled: no status check yet
C28_Witness ==
  /\ begun_by = "begin_delete_key"
  /\ ~finished(poller_status)
  /\ status_checks = 0
  /\ last_response = "initial"
  /\ done_returns = << FALSE, FALSE >>
  /\ Len(results) = 2

\* ---------------------------------------------------------------------
\* The key client: each call marshals its arguments into requests to the
\* generated client (self._client).
\* ---------------------------------------------------------------------

\* most calls made on the client, and the largest count asked for
MaxClientCalls == 2
MaxCount == 2

Counts == -1..MaxCount

\* the fewest random bytes that can be requested
MinRandomBytes == 1

RejectsOnlyNegativeCount(count) == count < 0

\* "if count < 1: raise ValueError(...)"
RejectsCount(count) == count < MinRandomBytes

\* self._models.GetRandomBytesRequest(count=count)
GetRandomBytesRequest(count) == [count |-> count]

\* self._client.get_random_bytes(parameters=parameters, **kwargs)
GeneratedRequest(name, parameters) ==
  [operation |-> name, parameters |-> parameters]

\* how the service can answer a request
ServiceOutcomes == {"returned", "HttpResponseError"}

ClientCall(method, arguments, requests, outcome) ==
  [method |-> method, arguments |-> arguments, requests |-> requests,
   outcome |-> outcome]

get_random_bytes(count) ==
  /\ Len(client_calls) < MaxClientCalls
  /\ IF RejectsCount(count)
       THEN client_calls' =
              Append(client_calls,
                     ClientCall("get_random_bytes", [count |-> count], << >>,
                                "ValueError"))
       ELSE \E outcome \in ServiceOutcomes :
              client_calls' =
                Append(client_calls,
                       ClientCall("get_random_bytes", [count |-> count],
                                  << GeneratedRequest("get_random_bytes",
                                       GetRandomBytesRequest(count)) >>,
                                  outcome))
  /\ UNCHANGED << send_vars, calls, pipeline_vars, poller_vars, composed >>

\* An optional value: None is the empty sequence, a value v is << v >>.
NoValue == << >>
Some(v) == << v >>

\* Python truth of an optional list and of an optional string
TruthyList(optional) == optional # NoValue /\ optional[1] # << >>
TruthyString(optional) == optional # NoValue /\ optional[1] # ""

\* KeyRotationLifetimeAction(action, time_after_create, time_before_expiry)
Rotate ==
  [action |-> "Rotate", time_after_create |-> "P30D", time_before_expiry |-> "None"]
Notify ==
  [action |-> "Notify", time_after_create |-> "None", time_before_expiry |-> "P7D"]

\* the policy argument, and the lifetime_actions and expires_in keywords
KeyRotationPolicies ==
  [lifetime_actions : {NoValue, Some(<< >>), Some(<< Notify >>)},
   expires_in : {NoValue, Some("P1Y")}]
LifetimeActionsKeywords ==
  {NoValue, Some(<< >>), Some(<< Rotate >>), Some(<< Rotate, Notify >>)}
ExpiresInKeywords == {NoValue, Some(""), Some("P90D")}

\* "actions = lifetime_actions or policy.lifetime_actions"
SelectedActions(lifetime_actions, policy) ==
  IF TruthyList(lifetime_actions) THEN lifetime_actions ELSE policy.lifetime_actions

\* self._models.LifetimeActions(action=..., trigger=...)
LifetimeActions(action) ==
  [action |-> [type |-> action.action],
   trigger |-> [time_after_create |-> action.time_after_create,
                time_before_expiry |-> action.time_before_expiry]]

\* "if actions: actions = [LifetimeActions(...) for action in actions]"
ConvertedActions(actions) ==
  IF TruthyList(actions)
    THEN Some([i \in 1..Len(actions[1]) |-> LifetimeActions(actions[1][i])])
    ELSE actions

\* "expiry_time=expires_in or policy.expires_in"
ExpiryTime(expires_in, policy) ==
  IF TruthyString(expires_in) THEN expires_in ELSE policy.expires_in

\* self._models.KeyRotationPolicy(lifetime_actions=actions or [], attributes=...)
NewKeyRotationPolicy(actions, attributes) ==
  [lifetime_actions |-> IF TruthyList(actions) THEN actions[1] ELSE << >>,
   attributes |-> attributes]

update_key_rotation_policy(policy, lifetime_actions, expires_in) ==
  /\ Len(client_calls) < MaxClientCalls
  /\ LET actions == ConvertedActions(SelectedActions(lifetime_actions, policy))
         attributes == [expiry_time |-> ExpiryTime(expires_in, policy)]
         new_policy == NewKeyRotationPolicy(actions, attributes)
     IN \E outcome \in ServiceOutcomes :
          client_calls' =
            Append(client_calls,
                   ClientCall("update_key_rotation_policy",
                              [policy |-> policy,
                               lifetime_actions |-> lifetime_actions,
                               expires_in |-> expires_in],
                              << GeneratedRequest("update_key_rotation_policy",
                                                  new_policy) >>,
                              outcome))
  /\ UNCHANGED << send_vars, calls, pipeline_vars, poller_vars, composed >>

InitKeyClient ==
  /\ client_calls = << >>
  /\ NoCompose
  /\ NoSend
  /\ calls = << >>
  /\ NoPipeline
  /\ NoPoller

GetRandomBytes == \E count \in Counts : get_random_bytes(count)

UpdateKeyRotationPolicy ==
  \E policy \in KeyRotationPolicies, lifetime_actions \in LifetimeActionsKeywords,
     expires_in \in ExpiresInKeywords :
    update_key_rotation_policy(policy, lifetime_actions, expires_in)

NextKeyClient ==
  \/ GetRandomBytes
  \/ UpdateKeyRotationPolicy

SpecKeyClient == InitKeyClient /\ [][NextKeyClient]_vars

CallsOf(method) ==
  {i \in 1..Len(client_calls) : client_calls[i].method = method}

\* C29: get_random_bytes(count) with count < 1 ends with ValueError and
\* hands no request to the generated client; with count >= 1 it hands it
\* exactly one request, which carries that count.
C29_CountCheckedBeforeRequest ==
  \A i \in CallsOf("get_random_bytes") :
    LET call == client_calls[i]
        count == call.arguments.count
    IN /\ count < 1 => call.outcome = "ValueError" /\ call.requests = << >>
       /\ count >= 1 =>
            /\ call.outcome \in ServiceOutcomes
            /\ Len(call.requests) = 1
            /\ call.requests[1].operation = "get_random_bytes"
            /\ call.requests[1].parameters.count = count

\* get_random_bytes(0) was refused and get_random_bytes(2) sent a request
C29_Witness ==
  /\ Len(client_calls) = 2
  /\ client_calls[1].method = "get_random_bytes"
  /\ client_calls[1].arguments.count = 0
  /\ client_calls[1].outcome = "ValueError"
  /\ client_calls[2].method = "get_random_bytes"
  /\ client_calls[2].arguments.count = 2
  /\ client_calls[2].outcome = "returned"

\* the request a call of update_key_rotation_policy sent carries the
\* supplied keyword where one is supplied, and the policy's value otherwise
KeywordsOverride(call) ==
  LET supplied == call.arguments
      sent == call.requests[1].parameters
      actions == IF supplied.lifetime_actions # NoValue
                   THEN supplied.lifetime_actions
                   ELSE supplied.policy.lifetime_actions
      expiry == IF supplied.expires_in # NoValue
                  THEN supplied.expires_in
                  ELSE supplied.policy.expires_in
  IN /\ sent.lifetime_actions =
          IF actions = NoValue THEN << >>
          ELSE [j \in 1..Len(actions[1]) |-> LifetimeActions(actions[1][j])]
     /\ sent.attributes.expiry_time = expiry

\* C30: in update_key_rotation_policy a supplied lifetime_actions keyword
\* overrides the policy's lifetime actions and a supplied expires_in
\* overrides the policy's expiry time, for every supplied value including
\* an empty list; the policy's values are used only when the keyword is
\* not supplied.
C30_Original ==
  \A i \in CallsOf("update_key_rotation_policy") : KeywordsOverride(client_calls[i])

----------------------------------------------------------------------------
\* A send call whose request carries a method and content, answered with
\* redirects of both kinds.

\* the content of a request that has some
Payload == "payload"

\* the requests a caller sends: one without content, two with
CallerRequests ==
  { HttpRequestWith("GET", Url("a.example", "x"), NoBody),
    HttpRequestWith("POST", Url("a.example", "x"), Payload),
    HttpRequestWith("PUT", Url("a.example", "x"), Payload) }

\* what the server answers with in these calls
StyledStatuses == {200, 303, 307, 308}

InitStyled ==
  /\ policy_kwargs \in
       {[k \in {"redirect_max"} |-> m] : m \in 1..MaxRedirects}
  /\ failure = NoFailure
  /\ self_allow =
       OptionGet(policy_kwargs, "permit_redirects", DefaultPermitRedirects)
  /\ self_max_redirects =
       OptionGet(policy_kwargs, "redirect_max", DefaultRedirectMax)
  /\ cleanup_downstream = FALSE
  /\ pc = "init"
  /\ request \in CallerRequests
  /\ options = [k \in {} |-> TRUE]
  /\ redirect_settings = NoSettings
  /\ original_domain = NoDomain
  /\ redirects_remaining = TRUE
  /\ forwarded = << >>
  /\ received = << >>
  /\ flag_writes = << >>
  /\ original_request = request
  /\ original_options = options
  /\ returned = NoResponse
  /\ raised = << >>
  /\ calls = << >>
  /\ NoPipeline
  /\ NoPoller
  /\ NoClientCall
  /\ NoCompose

ReceiveStyledResponse == \E status \in StyledStatuses, location \in Locations :
                           Receive(status, location)

NextStyled == Start \/ Forward \/ ReceiveStyledResponse \/ NextStageFails

SpecStyled == InitStyled /\ [][NextStyled]_vars

\* the request the call holds after the redirect it received at hop j:
\* the one forwarded next, or the one it was left with when it raised
RequestAfter(j) ==
  IF j < Len(forwarded) THEN forwarded[j + 1].http_request ELSE request

\* status codes whose redirect keeps method and content
PreservingStatuses == {307, 308}

\* the hops of the call at which a redirect was followed
FollowedHops ==
  {j \in 1..Len(received) :
     /\ j <= Len(forwarded)
     /\ (j < Len(forwarded) \/ pc \in {"forward", "raised"})
     /\ IsRedirect(received[j])}

\* C31: when a redirect is followed, the re-issued request follows the
\* semantics of the response's status code: after a 303 it is a GET without
\* content, after a 307 or a 308 it has the method and the content of the
\* request that was answered; in both cases it points at the location.
C31_RedirectSemanticsByStatus ==
  \A j \in FollowedHops :
    LET answered == forwarded[j].http_request
        reissued == RequestAfter(j)
    IN /\ reissued.url = received[j].location
       /\ received[j].status = 303 =>
            reissued.method = "GET" /\ reissued.body = NoBody
       /\ received[j].status \in PreservingStatuses =>
            reissued.method = answered.method /\ reissued.body = answered.body

\* a POST with content answered 307 and then 303: forwarded again as a POST
\* with the content, then as a GET without
C31_Witness ==
  /\ Len(forwarded) = 3
  /\ received[1].status = 307
  /\ received[2].status = 303
  /\ forwarded[1].http_request.method = "POST"
  /\ forwarded[2].http_request.method = "POST"
  /\ forwarded[2].http_request.body = Payload
  /\ forwarded[3].http_request.method = "GET"
  /\ forwarded[3].http_request.body = NoBody

----------------------------------------------------------------------------
\* the response received last in the call
LastReceived == received[Len(received)]

\* the state of a call whose redirect budget is exhausted
BudgetExhausted ==
  /\ pc = "raised"
  /\ Len(forwarded) = Len(received)
  /\ raised # << >>
  /\ raised[Len(raised)] = LastReceived
  /\ IsRedirect(LastReceived)
  /\ request.url = LastReceived.location
  /\ returned = NoResponse

\* C33: once increment reports that no redirects remain, send raises the
\* too-many-redirects error and forwards nothing more: the response that
\* exhausted the budget is the last one received and the last of the
\* history raised, every request forwarded has been answered, and the
\* call's request is already the redirected one, which is never sent.
C33_RaisesWithoutForwardingAgain ==
  /\ [](~redirects_remaining => BudgetExhausted)
  /\ [](pc = "raised" => ~redirects_remaining)
  /\ [][pc = "raised" => pc' = "raised" /\ forwarded' = forwarded]_vars

\* the budget of one redirect is exhausted by a redirect to another domain:
\* the request points there and the flag was written for that hop, and the
\* only request forwarded is the original one, without the flag
C33_Witness ==
  /\ pc = "raised"
  /\ Len(forwarded) = 1
  /\ forwarded[1].http_request = original_request
  /\ ~forwarded[1].insecure_domain_change
  /\ get_domain(request.url) # OriginalDomain
  /\ flag_writes = << 1 >>
  /\ FlagInContext

----------------------------------------------------------------------------
\* a hop before forward i at which send wrote the flag
FlagWrittenBefore(i) == \E w \in Range(flag_writes) : w < i

\* C34: the redirect policy only ever writes true to the
\* insecure-domain-change flag and never resets it: the flag, when in the
\* options, is true; no step of send itself takes it out; and where nothing
\* downstream removes it, every forward after a cross-domain hop carries
\* it, the forward of a request that is back on the original domain
\* included.
C34_FlagNeverReset ==
  /\ []("insecure_domain_change" \in DOMAIN options =>
          options["insecure_domain_change"] = TRUE)
  /\ [][(FlagInContext /\ (pc # "forward" \/ ~cleanup_downstream)) =>
          FlagInContext']_vars
  /\ [](~cleanup_downstream =>
          \A i \in 1..Len(forwarded) :
            FlagWrittenBefore(i) => forwarded[i].insecure_domain_change)

\* a.example -> b.example -> a.example with nothing downstream consuming
\* the flag: the request for a.example is forwarded with the flag set
C34_Witness ==
  /\ ~cleanup_downstream
  /\ Len(forwarded) = 3
  /\ get_domain(forwarded[2].http_request.url) # OriginalDomain
  /\ get_domain(forwarded[3].http_request.url) = OriginalDomain
  /\ flag_writes = << 1 >>
  /\ forwarded[3].insecure_domain_change

----------------------------------------------------------------------------
\* the options of the call without the insecure-domain-change flag
OptionsButFlag == OptionPop(options, "insecure_domain_change")

----------------------------------------------------------------------------
\* A send call every forward of which is answered, on a policy constructed
\* with a redirect_max within the bound.

InitAnswered ==
  /\ policy_kwargs \in
       {[k \in {"redirect_max"} |-> m] : m \in 0..MaxRedirects}
  /\ failure = NoFailure
  /\ self_allow =
       OptionGet(policy_kwargs, "permit_redirects", DefaultPermitRedirects)
  /\ self_max_redirects =
       OptionGet(policy_kwargs, "redirect_max", DefaultRedirectMax)
  /\ cleanup_downstream \in BOOLEAN
  /\ pc = "init"
  /\ request = HttpRequest(Url("a.example", "x"))
  /\ options \in CallOptions
  /\ redirect_settings = NoSettings
  /\ original_domain = NoDomain
  /\ redirects_remaining = TRUE
  /\ forwarded = << >>
  /\ received = << >>
  /\ flag_writes = << >>
  /\ original_request = request
  /\ original_options = options
  /\ returned = NoResponse
  /\ raised = << >>
  /\ calls = << >>
  /\ NoPipeline
  /\ NoPoller
  /\ NoClientCall
  /\ NoCompose

NextAnswered == Start \/ Forward \/ ReceiveResponse

\* send runs on when it can, and the next stage answers every forward
SpecAnswered ==
  /\ InitAnswered
  /\ [][NextAnswered]_vars
  /\ WF_vars(Start)
  /\ WF_vars(Forward)
  /\ WF_vars(ReceiveResponse)

\* the call has ended: it returned a response or raised too-many-redirects
CallEnded == pc \in {"returned", "raised"}

\* C32: when every forward to the next stage is answered, a send call ends,
\* by returning a response or by raising the too-many-redirects error,
\* whatever the answers are; it forwards at most once more than the
\* configured maximum of redirects, and nothing happens in it after it
\* ended.
C32_SendTerminates ==
  /\ <>CallEnded
  /\ [](Len(forwarded) <= redirect_settings.max_redirects + 1)
  /\ [][~CallEnded]_vars

\* a redirect loop between /x and /y, cut by the maximum of three redirects
C32_Witness ==
  /\ pc = "raised"
  /\ redirect_settings.max_redirects = 3
  /\ Len(forwarded) = 3
  /\ forwarded[1].http_request.url = Url("a.example", "x")
  /\ forwarded[2].http_request.url = Url("a.example", "y")
  /\ forwarded[3].http_request.url = Url("a.example", "x")
  /\ received[3].location = Url("a.example", "y")
  /\ Len(raised) = 3

----------------------------------------------------------------------------
\* the coroutine has returned a value to its caller
CoroutineReturned == results # << >>

\* C36: the coroutines delete_secret and recover_deleted_secret return only
\* after the run of their polling method ended with the poller terminal,
\* and return nothing when the run ended in an error or was abandoned; the
\* value returned is the resource of the initial response, which no status
\* check has replaced; and recover_deleted_secret has made at least one
\* status check when it returns.
C36_CoroutineReturnsAfterRun ==
  begun_by \in CoroutineMethods =>
    /\ CoroutineReturned <=> last_call = Ended("run", "returned")
    /\ CoroutineReturned =>
         /\ Len(results) = 1
         /\ results[1].by = "run"
         /\ results[1].finished
         /\ finished(poller_status)
         /\ caller = "idle"
         /\ results[1].resource = final_resource
         /\ results[1].resource \in InitialResources(begun_by)
    /\ (begun_by = "recover_deleted_secret" /\ CoroutineReturned) =>
         status_checks >= 1
    /\ last_call.outcome \in {"raised", "cancelled"} => ~CoroutineReturned

\* recover_deleted_secret returned the secret's properties after a second
\* status check found the recovery complete
C36_Witness ==
  /\ begun_by = "recover_deleted_secret"
  /\ results = << [by |-> "run", resource |-> [type |-> "SecretProperties"],
                   finished |-> TRUE] >>
  /\ status_checks = 2
  /\ sleeps = 1
  /\ poller_status = "Succeeded"

----------------------------------------------------------------------------
\* C38: the poll interval handed to the polling method is the caller's
\* _polling_interval when one is given and 2 otherwise, and it is the length
\* of every sleep; the keyword arguments handed to the initial service call
\* and bound into the status-check command are the caller's without
\* _polling_interval, every other keyword as passed.
C38_PollingIntervalPopped ==
  LET given == begun_with.kwargs
      others == DOMAIN given \ {"_polling_interval"}
  IN /\ "_polling_interval" \in DOMAIN given =>
          poll_interval = given["_polling_interval"]
     /\ "_polling_interval" \notin DOMAIN given =>
          poll_interval = DefaultPollingInterval
     /\ DOMAIN begun_with.service_call.kwargs = others
     /\ DOMAIN begun_with.command.kwargs = others
     /\ \A k \in others :
          /\ begun_with.service_call.kwargs[k] = given[k]
          /\ begun_with.command.kwargs[k] = given[k]
     /\ \A i \in 1..Len(attempts) :
          attempts[i].event = "sleep" => attempts[i].seconds = poll_interval

\* delete_secret called with _polling_interval=0 and a timeout: the service
\* call and the command got the timeout alone, and the run slept 0 seconds
C38_Witness ==
  /\ begun_by = "delete_secret"
  /\ begun_with.kwargs = [k \in {"_polling_interval", "timeout"} |->
                            IF k = "timeout" THEN 1 ELSE 0]
  /\ begun_with.service_call =
       [operation |-> "delete_secret", kwargs |-> [k \in {"timeout"} |-> 1]]
  /\ begun_with.command =
       [function |-> "get_deleted_secret", kwargs |-> [k \in {"timeout"} |-> 1]]
  /\ poll_interval = 0
  /\ attempts = << StatusCheck, Sleep(0), StatusCheck >>
  /\ caller = "idle"

----------------------------------------------------------------------------
\* AttackStrategy.Compose
\* ---------------------------------------------------------------------

\* longest list handed to Compose
MaxItems == 3

\* most items a composed strategy may have
MaxComposedItems == 2

\* a value and the class it is an instance of
Instance(class, value) == [class |-> class, value |-> value]

\* three members of the enumeration
AttackStrategyMembers ==
  {Instance("AttackStrategy", v) : v \in {"base64", "flip", "morse"}}

\* what a caller may put in the list: members, a member's value as a plain
\* string, None
Items ==
  AttackStrategyMembers \cup {Instance("str", "base64"), Instance("NoneType", "None")}

ItemLists == UNION {[1..n -> Items] : n \in 0..MaxItems}

\* isinstance(item, cls)
IsInstance(item) == item.class = "AttackStrategy"

AllItemsMessage == "All items must be instances of AttackStrategy"
AtMostMessage == "Composed strategies must have at most 2 items"

\* "if len(items) > 2"
TooMany(items) == Len(items) > MaxComposedItems

\* how a call ended: with the list returned, or with a ValueError
Returned(items) ==
  [outcome |-> "returned", message |-> "", returned |-> Some(items)]
ValueError(message) ==
  [outcome |-> "ValueError", message |-> message, returned |-> NoValue]

\* the loop over the items: the first item that is no member raises
RECURSIVE CheckItems(_, _)
CheckItems(items, i) ==
  IF i > Len(items) THEN NoValue
  ELSE IF ~IsInstance(items[i]) THEN Some(ValueError(AllItemsMessage))
  ELSE CheckItems(items, i + 1)

ComposeLengthFirst(items) ==
  IF TooMany(items) THEN ValueError(AtMostMessage)
  ELSE IF CheckItems(items, 1) # NoValue THEN CheckItems(items, 1)[1]
  ELSE Returned(items)

Compose(items) ==
  IF CheckItems(items, 1) # NoValue THEN CheckItems(items, 1)[1]
  ELSE IF TooMany(items) THEN ValueError(AtMostMessage)
  ELSE Returned(items)

InitCompose ==
  /\ NoCompose
  /\ NoSend
  /\ calls = << >>
  /\ NoPipeline
  /\ NoPoller
  /\ NoClientCall

\* one call of Compose
CallCompose ==
  /\ composed = << >>
  /\ \E items \in ItemLists :
       composed' = << [items |-> items, ended |-> Compose(items)] >>
  /\ UNCHANGED << send_vars, calls, pipeline_vars, poller_vars, client_calls >>

SpecCompose == InitCompose /\ [][CallCompose]_vars

\* every item of the list is a member of AttackStrategy
AllMembers(items) ==
  \A i \in 1..Len(items) : items[i] \in AttackStrategyMembers

\* C37: Compose returns the list it was given, unchanged, when every item
\* is an AttackStrategy member and there are at most 2 items, the empty
\* list included; otherwise it raises ValueError, with the
\* not-an-AttackStrategy message whenever some item is no member, however
\* long the list, and with the too-many-items message only when all of more
\* than 2 items are members.
C37_ComposeChecksMembersFirst ==
  composed # << >> =>
    LET items == composed[1].items
        ended == composed[1].ended
    IN /\ (AllMembers(items) /\ Len(items) <= 2) =>
            ended.outcome = "returned" /\ ended.returned = << items >>
       /\ ~(AllMembers(items) /\ Len(items) <= 2) =>
            ended.outcome = "ValueError" /\ ended.returned = << >>
       /\ ~AllMembers(items) => ended.message = AllItemsMessage
       /\ (AllMembers(items) /\ Len(items) > 2) =>
            ended.message = AtMostMessage

\* three items, the last of them a plain string: the error is the one about
\* membership
C37_Witness ==
  /\ composed # << >>
  /\ Len(composed[1].items) = 3
  /\ composed[1].items[1] \in AttackStrategyMembers
  /\ composed[1].items[2] \in AttackStrategyMembers
  /\ composed[1].items[3] = Instance("str", "base64")
  /\ composed[1].ended = ValueError(AllItemsMessage)

====
